---- MODULE Spec2Model ----
(***************************************************************************)
(* Model of pygubudesigner/propertieseditor.py: the PropertiesEditor panel *)
(* (property bag, edit, update_editor, hide_all, <<PropertyChanged>>).     *)
(*                                                                         *)
(* Python values are modelled as follows.                                  *)
(*   - str          : a TLA+ string; "a" + "b" is "a" \o "b".              *)
(*   - dict         : a function whose DOMAIN is the set of keys.          *)
(*   - ordered dict : where iteration order matters (the help mapping), a  *)
(*                    sequence of <<key, value>> pairs in insertion order. *)
(*   - None         : the reserved string None, which is no property       *)
(*                    value, mode, class name or widget of the model.      *)
(*   - object       : its identity (a string); widget descriptors are      *)
(*                    "w1".."w3", labels and editors are named by the      *)
(*                    property-bag key they were created for.              *)
(***************************************************************************)
EXTENDS Integers, Sequences, FiniteSets, TLC

\* Number of <<PropertyChanged>> events a run delivers.
MaxEvents == 2

None == "None"

EmptyDict == [k \in {} |-> ""]

\* dict.get(k, dflt)
Get(d, k, dflt) == IF k \in DOMAIN d THEN d[k] ELSE dflt

\* str.startswith(prefix)
startswith(s, prefix) ==
    /\ Len(prefix) <= Len(s)
    /\ SubSeq(s, 1, Len(prefix)) = prefix

\* truthiness of a str: `not value` is true exactly for the empty string
truthy(v) == v # ""

(***************************************************************************)
(* The external tables the panel consumes.  A help entry is a plain string *)
(* (isdict = FALSE) or a class-prefix mapping (isdict = TRUE).             *)
(***************************************************************************)
HelpStr(s) == [isdict |-> FALSE, text |-> s, items |-> <<>>]

HelpDict(items) == [isdict |-> TRUE, text |-> "", items |-> items]

\* properties.WIDGET_REQUIRED_OPTIONS
WIDGET_REQUIRED_OPTIONS == <<"class", "id">>

\* properties.WIDGET_STANDARD_OPTIONS
WIDGET_STANDARD_OPTIONS == <<"text">>

\* properties.WIDGET_SPECIFIC_OPTIONS
WIDGET_SPECIFIC_OPTIONS == <<"width">>

\* properties.WIDGET_CUSTOM_OPTIONS
WIDGET_CUSTOM_OPTIONS == <<"data">>

\* properties.REQUIRED_OPTIONS as supplied
REQUIRED_OPTIONS ==
    ("class" :> ( ("editor" :> "fixed")
               @@ ("params" :> ("state" :> "readonly")) ))
 @@ ("id"    :> ( ("editor" :> "namedid")
               @@ ("params" :> ("mode" :> "namedid"))
               @@ ("help" :> HelpStr("widget id")) ))

\* properties.TK_WIDGET_OPTIONS as supplied
TK_WIDGET_OPTIONS ==
    ("text"   :> ( ("editor" :> "dynamic")
                @@ ("params" :> ("mode" :> "entry"))
                @@ ("help" :> HelpDict(<< <<"ttk.B", "ttk button text">>,
                                          <<"t", "any text">>,
                                          <<"ttk.", "ttk text">>,
                                          <<"tk.", "tk text">> >>))
                @@ ("tk.Button" :> ("params" :> ("width" :> "20")))
                @@ ("ttk.Label" :> ("params" :> ("mode" :> "text"))) ))
 @@ ("width"  :> ( ("editor" :> "natural")
                @@ ("default" :> "10")
                @@ ("help" :> HelpDict(<< <<"ttk.", "ttk width">> >>))
                @@ ("tk.Button" :> ("default" :> "5")) ))

\* properties.CUSTOM_OPTIONS as supplied
CUSTOM_OPTIONS ==
    ("data" :> ( ("editor" :> "entry")
              @@ ("default" :> "none")
              @@ ("help" :> HelpStr("custom data"))
              @@ ("ttk.Label" :> ("help" :> HelpDict(<< <<"ttk.L", "label data">> >>))) ))

\* The three descriptor mappings, by the name the code refers to them with.
PropertyTables ==
    [REQUIRED_OPTIONS  |-> REQUIRED_OPTIONS,
     TK_WIDGET_OPTIONS |-> TK_WIDGET_OPTIONS,
     CUSTOM_OPTIONS    |-> CUSTOM_OPTIONS]

\* builder.CLASS_MAP[classname].builder: the per-group applicable names
CLASS_MAP ==
    ("tk.Button" :> [OPTIONS_STANDARD |-> {"text", "takefocus"},
                     OPTIONS_SPECIFIC |-> {"width"},
                     OPTIONS_CUSTOM   |-> {}])
 @@ ("ttk.Label" :> [OPTIONS_STANDARD |-> {"text", "cursor"},
                     OPTIONS_SPECIFIC |-> {},
                     OPTIONS_CUSTOM   |-> {"data"}])

\* The widget descriptors the designer can select.
Widgets == {"w1", "w2", "w3"}

\* wdescr.classname; "my.Widget" has no entry in CLASS_MAP
classname ==
    ("w1" :> "tk.Button") @@ ("w2" :> "ttk.Label") @@ ("w3" :> "my.Widget")

\* wdescr.start_id
start_id ==
    ("w1" :> "button1") @@ ("w2" :> "label1") @@ ("w3" :> "widget1")

\* The values an editor can hold and a widget property can have.
Values == {"", "a"}

PropertyNames == {"class", "id", "text", "width", "data"}

\* widget_property(name) of each descriptor when the panel is constructed
InitialProperties ==
    [w \in Widgets |->
        [n \in PropertyNames |->
            CASE n = "class" -> classname[w]
              [] n = "text" /\ w = "w1" -> "a"
              [] n = "id" /\ w = "w2" -> "a"
              [] OTHER -> ""]]

VARIABLES
    _current,   \* self._current: the descriptor <<PropertyChanged>> writes to
    current,    \* self.current: the attribute hide_all assigns
    _propbag,   \* self._propbag: gcode + name -> (label, editor)
    gridded,    \* per key: whether the label / the editor is in the grid layout
    parameters, \* per key: the dict last passed to editor.parameters(**params)
    tooltip,    \* per key: label.tooltip.text
    value,      \* per key: editor.value
    descr,      \* the descriptor tables (shared, mutable dicts)
    properties, \* per widget descriptor: its property values
    calls,      \* the widget_property(name, value) set calls the last operation made: <<w, name, value>>
    events,     \* history: number of <<PropertyChanged>> events delivered
    lastEdited, \* history: the descriptor most recently passed to edit
    idle,       \* history: edit has not been called since construction or the last hide_all
    lastOp      \* history: the operation that produced this state

vars == <<_current, current, _propbag, gridded, parameters, tooltip, value,
          descr, properties, calls, events, lastEdited, idle, lastOp>>

Op(op, w, key, v, raised) ==
    [op |-> op, w |-> w, key |-> key, value |-> v, raised |-> raised]

(***************************************************************************)
(* External collaborators.                                                 *)
(***************************************************************************)
\* create_editor(wtype, master): the class of the editor made for a kind
create_editor(wtype) ==
    IF wtype = "namedid" THEN "NamedIDPropertyEditor" ELSE "PropertyEditor"

\* wdescr.widget_property(name): the getter
widget_property_get(props, w, name) == props[w][name]

\* wdescr.widget_property(name, value): the setter
widget_property_set(props, w, name, v) == [props EXCEPT ![w][name] = v]

(***************************************************************************)
(* Construction.                                                           *)
(***************************************************************************)
\* the groups tuple of _create_properties: (gcode, plist, propdescr)
create_groups ==
    << [gcode |-> "00", plist |-> WIDGET_REQUIRED_OPTIONS, propdescr |-> "REQUIRED_OPTIONS"],
       [gcode |-> "01", plist |-> WIDGET_STANDARD_OPTIONS, propdescr |-> "TK_WIDGET_OPTIONS"],
       [gcode |-> "02", plist |-> WIDGET_SPECIFIC_OPTIONS, propdescr |-> "TK_WIDGET_OPTIONS"],
       [gcode |-> "03", plist |-> WIDGET_CUSTOM_OPTIONS,   propdescr |-> "CUSTOM_OPTIONS"] >>

\* _create_editor: the editor object made for property pname
_create_editor(pname, wdata) ==
    [name |-> pname, class |-> create_editor(Get(wdata, "editor", None))]

\* _create_properties: the property bag after both loops
_create_properties ==
    LET keys == { <<g, i>> \in (1..Len(create_groups)) \X (1..3) :
                     i <= Len(create_groups[g].plist) }
        keyOf(gi) == create_groups[gi[1]].gcode \o create_groups[gi[1]].plist[gi[2]]
    IN  [k \in { keyOf(gi) : gi \in keys } |->
            LET gi == CHOOSE x \in keys : keyOf(x) = k
                g  == create_groups[gi[1]]
                name == g.plist[gi[2]]
            IN  [label  |-> "label:" \o k,
                 editor |-> _create_editor(name, PropertyTables[g.propdescr][name])]]

(***************************************************************************)
(* update_editor.  st is the part of the state the routine reads and       *)
(* writes: [descr, parameters, tooltip, value, gridded].  The label and    *)
(* the editor are named by their key; propdescr is gproperties[pname], a   *)
(* reference into the table named tbl.                                     *)
(***************************************************************************)
\* line 143-144: the descriptor with the class-specific sub-dict laid over it
merged_descr(propdescr, cname) ==
    IF cname \in DOMAIN propdescr
    THEN propdescr[cname] @@ propdescr
    ELSE propdescr

\* line 146: which dict object `params` is
\*   "class"   the class-specific sub-dict's own "params"
\*   "generic" the generic descriptor's "params"
\*   "fresh"   the new {} that .get() returns
params_object(propdescr, cname) ==
    IF cname \in DOMAIN propdescr /\ "params" \in DOMAIN propdescr[cname]
    THEN "class"
    ELSE IF "params" \in DOMAIN propdescr THEN "generic" ELSE "fresh"

\* lines 139-141
default_mode(propdescr) ==
    IF "params" \in DOMAIN propdescr
    THEN Get(propdescr["params"], "mode", None)
    ELSE None

\* Variant: the generic mode replaces a mode the class-specific params set.
with_default_mode_always(params, dmode) ==
    IF dmode # None
    THEN ("mode" :> dmode) @@ [k \in DOMAIN params \ {"mode"} |-> params[k]]
    ELSE params

\* lines 149-150: params["mode"] = default_mode
with_default_mode(params, dmode) ==
    IF dmode # None /\ "mode" \notin DOMAIN params
    THEN ("mode" :> dmode) @@ params
    ELSE params

\* lines 153-154: params["placeholder"] = wdescr.start_id
with_placeholder(params, pname, editor, wdescr) ==
    IF pname = "id" /\ editor.class = "NamedIDPropertyEditor"
    THEN ("placeholder" :> start_id[wdescr]) @@ params
    ELSE params

\* lines 146-154: the params dict as it is when passed to editor.parameters
editor_params(propdescr, pname, editor, wdescr) ==
    LET pdescr == merged_descr(propdescr, classname[wdescr])
        params == Get(pdescr, "params", EmptyDict)
    IN  with_placeholder(with_default_mode(params, default_mode(propdescr)),
                         pname, editor, wdescr)

\* lines 150, 154 write through `params` into the dict object it refers to
descr_after_params(propdescr, cname, params) ==
    LET obj == params_object(propdescr, cname) IN
    CASE obj = "class"   -> [propdescr EXCEPT ![cname] = ("params" :> params) @@ @]
      [] obj = "generic" -> ("params" :> params) @@ propdescr
      [] OTHER           -> propdescr

\* Variant: the loop has no break, so the last matching key wins.
help_for_class_last_match(items, cname) ==
    LET matching == { i \in 1..Len(items) : startswith(cname, items[i][1]) } IN
    IF matching = {}
    THEN ""
    ELSE items[CHOOSE i \in matching : \A j \in matching : j <= i][2]

\* lines 163-170: first key that classname starts with, "" when none
RECURSIVE help_for_class(_, _)
help_for_class(items, cname) ==
    IF items = <<>>
    THEN ""
    ELSE IF startswith(cname, Head(items)[1])
         THEN Head(items)[2]
         ELSE help_for_class(Tail(items), cname)

\* lines 160-171: the text given to label.tooltip
tooltip_text(pdescr, cname) ==
    IF "help" \notin DOMAIN pdescr
    THEN None
    ELSE IF pdescr["help"].isdict
         THEN help_for_class(pdescr["help"].items, cname)
         ELSE pdescr["help"].text

\* Variant: the default is used whenever there is one.
display_value_default_first(pdescr, wvalue) ==
    LET default == Get(pdescr, "default", "") IN
    IF truthy(default) THEN default ELSE wvalue

\* lines 174-178: the value given to editor.edit
display_value(pdescr, wvalue) ==
    LET default == Get(pdescr, "default", "") IN
    IF ~truthy(wvalue) /\ truthy(default) THEN default ELSE wvalue

update_editor(st, key, wdescr, pname, tbl) ==
    LET propdescr == st.descr[tbl][pname]
        editor    == _propbag[key].editor
        cname     == classname[wdescr]
        pdescr    == merged_descr(propdescr, cname)
        params    == editor_params(propdescr, pname, editor, wdescr)
    IN  [st EXCEPT
            !.descr[tbl][pname] = descr_after_params(propdescr, cname, params),
            !.parameters[key]   = params,
            !.tooltip[key]      = tooltip_text(pdescr, cname),
            !.value[key]        = display_value(pdescr,
                                      widget_property_get(properties, wdescr, pname))]

(***************************************************************************)
(* edit                                                                    *)
(***************************************************************************)
\* the groups tuple of edit: (gcode, attribute, proplist, gproperties)
edit_groups ==
    << [gcode |-> "00", attrname |-> None,
        proplist |-> WIDGET_REQUIRED_OPTIONS, gproperties |-> "REQUIRED_OPTIONS"],
       [gcode |-> "01", attrname |-> "OPTIONS_STANDARD",
        proplist |-> WIDGET_STANDARD_OPTIONS, gproperties |-> "TK_WIDGET_OPTIONS"],
       [gcode |-> "02", attrname |-> "OPTIONS_SPECIFIC",
        proplist |-> WIDGET_SPECIFIC_OPTIONS, gproperties |-> "TK_WIDGET_OPTIONS"],
       [gcode |-> "03", attrname |-> "OPTIONS_CUSTOM",
        proplist |-> WIDGET_CUSTOM_OPTIONS,   gproperties |-> "CUSTOM_OPTIONS"] >>

\* Variant: the required group is not exempted from the class's lists.
is_shown_listed_only(gcode, name, class_descr, attrname) ==
    gcode # "00" /\ name \in class_descr[attrname]

\* line 217: whether the property is shown for the class
is_shown(gcode, name, class_descr, attrname) ==
    gcode = "00" \/ name \in class_descr[attrname]

\* lines 219-220 / 223-224: label.grid(), widget.grid() / grid_remove()
grid_pair(g, key, shown) ==
    [g EXCEPT ![key] = [label |-> shown, widget |-> shown]]

\* lines 215-224: the body of the inner loop, for one name
edit_property(st, wdescr, class_descr, group, name) ==
    LET key == group.gcode \o name IN
    IF is_shown(group.gcode, name, class_descr, group.attrname)
    THEN LET upd == update_editor(st, key, wdescr, name, group.gproperties)
         IN  [upd EXCEPT !.gridded = grid_pair(upd.gridded, key, TRUE)]
    ELSE [st EXCEPT !.gridded = grid_pair(st.gridded, key, FALSE)]

\* line 214: for name in proplist, from index i on
RECURSIVE edit_names(_, _, _, _, _)
edit_names(st, wdescr, class_descr, group, i) ==
    IF i > Len(group.proplist)
    THEN st
    ELSE edit_names(edit_property(st, wdescr, class_descr, group, group.proplist[i]),
                    wdescr, class_descr, group, i + 1)

\* line 213: for ... in groups, from index gi on
RECURSIVE edit_loop(_, _, _, _)
edit_loop(st, wdescr, class_descr, gi) ==
    IF gi > Len(edit_groups)
    THEN st
    ELSE edit_loop(edit_names(st, wdescr, class_descr, edit_groups[gi], 1),
                   wdescr, class_descr, gi + 1)

\* Variant: the assignment follows the class lookup, so a failed lookup
\* leaves the previous descriptor in place.
current_after_edit_checked(wdescr) ==
    IF classname[wdescr] \in DOMAIN CLASS_MAP THEN wdescr ELSE _current

\* line 182: self._current = wdescr, before the class is looked up
current_after_edit(wdescr) == wdescr

edit(wdescr) ==
    LET wclass == classname[wdescr]
        st  == [descr |-> descr, parameters |-> parameters, tooltip |-> tooltip,
                value |-> value, gridded |-> gridded]
    IN  /\ _current' = current_after_edit(wdescr)
        /\ lastEdited' = wdescr
        /\ idle' = FALSE
        /\ IF wclass \in DOMAIN CLASS_MAP
           THEN LET new == edit_loop(st, wdescr, CLASS_MAP[wclass], 1) IN
                /\ descr' = new.descr
                /\ parameters' = new.parameters
                /\ tooltip' = new.tooltip
                /\ value' = new.value
                /\ gridded' = new.gridded
                /\ lastOp' = Op("edit", wdescr, None, None, None)
           ELSE \* line 184: CLASS_MAP[wclass] raises KeyError
                /\ UNCHANGED <<descr, parameters, tooltip, value, gridded>>
                /\ lastOp' = Op("edit", wdescr, None, None, "KeyError")
        \* line 225: self._sframe.reposition() lays the container out again;
        \* the layout of the scrolled frame is not part of this state
        /\ calls' = <<>>
        /\ UNCHANGED <<current, _propbag, properties, events>>

(***************************************************************************)
(* hide_all                                                                *)
(***************************************************************************)
\* Variant: only the editor of each pair is removed, the label stays.
hide_pairs_widget_only(bag, g) ==
    [k \in DOMAIN g |->
        IF k \in DOMAIN bag THEN [label |-> g[k].label, widget |-> FALSE] ELSE g[k]]

\* lines 231-233: every pair of the bag removed from the grid
hide_pairs(bag, g) ==
    [k \in DOMAIN g |->
        IF k \in DOMAIN bag THEN [label |-> FALSE, widget |-> FALSE] ELSE g[k]]

\* Variant: the pairs are dropped from the bag instead of hidden.
hide_all_destroying ==
    /\ current' = None
    /\ gridded' = [k \in DOMAIN gridded |-> [label |-> FALSE, widget |-> FALSE]]
    /\ _propbag' = [k \in {} |-> _propbag[k]]
    /\ idle' = TRUE
    /\ lastOp' = Op("hide_all", None, None, None, None)
    /\ calls' = <<>>
    /\ UNCHANGED <<_current, parameters, tooltip, value, descr,
                   properties, events, lastEdited>>

\* line 229: self.current = None; self._current is not assigned
hide_all ==
    /\ current' = None
    /\ gridded' = hide_pairs(_propbag, gridded)
    /\ idle' = TRUE
    /\ lastOp' = Op("hide_all", None, None, None, None)
    /\ calls' = <<>>
    /\ UNCHANGED <<_current, _propbag, parameters, tooltip, value, descr,
                   properties, events, lastEdited>>

(***************************************************************************)
(* <<PropertyChanged>>: the user leaves v in the editor of key and the     *)
(* editor fires the event; on_change_cb runs _on_property_changed.         *)
(***************************************************************************)
\* Variant: the callback is not made per editor, so every editor reports
\* the name bound last in the construction loop.
property_changed_call_last_name(name, editor_value) ==
    <<_current, "data", editor_value>>

\* line 132: the receiver and the arguments of the call
property_changed_call(name, editor_value) == <<_current, name, editor_value>>

PropertyChanged(key, v) ==
    LET editor == _propbag[key].editor
        call   == property_changed_call(editor.name, v)
    IN  /\ key \in DOMAIN _propbag
        /\ events < MaxEvents
        /\ events' = events + 1
        /\ value' = [value EXCEPT ![key] = v]
        /\ IF call[1] # None
           THEN /\ calls' = <<call>>
                /\ properties' = widget_property_set(properties, call[1], call[2], call[3])
                /\ lastOp' = Op("event", None, key, v, None)
           ELSE \* None has no widget_property: AttributeError
                /\ calls' = <<>>
                /\ UNCHANGED properties
                /\ lastOp' = Op("event", None, key, v, "AttributeError")
        /\ UNCHANGED <<_current, current, _propbag, gridded, parameters, tooltip,
                       descr, lastEdited, idle>>

(***************************************************************************)
(* __init__: the state once the constructor has returned.                  *)
(***************************************************************************)
Init ==
    /\ _current = None
    /\ current = None
    /\ _propbag = _create_properties
    /\ gridded = hide_pairs(_create_properties,
                    [k \in DOMAIN _create_properties |-> [label |-> TRUE, widget |-> TRUE]])
    /\ parameters = [k \in DOMAIN _create_properties |-> EmptyDict]
    /\ tooltip = [k \in DOMAIN _create_properties |-> "?"]
    /\ value = [k \in DOMAIN _create_properties |-> ""]
    /\ descr = PropertyTables
    /\ properties = InitialProperties
    /\ calls = <<>>
    /\ events = 0
    /\ lastEdited = None
    /\ idle = TRUE
    /\ lastOp = Op("__init__", None, None, None, None)

Next ==
    \/ \E w \in Widgets : edit(w)
    \/ hide_all
    \/ \E key \in DOMAIN _propbag, v \in Values : PropertyChanged(key, v)

Spec == Init /\ [][Next]_vars

(***************************************************************************)
(* Vocabulary of the properties below.  These definitions restate what the *)
(* documentation says of the panel, over the tables as supplied            *)
(* (PropertyTables), independently of the operators above.                 *)
(***************************************************************************)
\* The registered properties: key, group code, name, descriptor table and
\* the class attribute that lists the names applicable to a class.
Registered ==
    { [key |-> "00" \o n, gcode |-> "00", name |-> n,
       tbl |-> "REQUIRED_OPTIONS", attr |-> None] : n \in {"class", "id"} }
    \cup
    { [key |-> "01" \o n, gcode |-> "01", name |-> n,
       tbl |-> "TK_WIDGET_OPTIONS", attr |-> "OPTIONS_STANDARD"] : n \in {"text"} }
    \cup
    { [key |-> "02" \o n, gcode |-> "02", name |-> n,
       tbl |-> "TK_WIDGET_OPTIONS", attr |-> "OPTIONS_SPECIFIC"] : n \in {"width"} }
    \cup
    { [key |-> "03" \o n, gcode |-> "03", name |-> n,
       tbl |-> "CUSTOM_OPTIONS", attr |-> "OPTIONS_CUSTOM"] : n \in {"data"} }

\* The registered properties that a widget of class cls exposes.
Exposed(cls) ==
    { r \in Registered : r.gcode = "00" \/ r.name \in CLASS_MAP[cls][r.attr] }

\* The last operation was an edit of a registered class that returned.
EditReturned == lastOp.op = "edit" /\ lastOp.raised = None

\* The last operation was an edit that raised the lookup failure.
EditFailed == lastOp.op = "edit" /\ lastOp.raised = "KeyError"

Visible(key) == gridded[key].label /\ gridded[key].widget

Hidden(key) == ~gridded[key].label /\ ~gridded[key].widget

\* The supplied descriptor of r with the sub-dict of class cls laid over it.
Effective(r, cls) ==
    LET gen == PropertyTables[r.tbl][r.name] IN
    [f \in {"params", "help", "default"} |->
        IF cls \in DOMAIN gen /\ f \in DOMAIN gen[cls]
        THEN [has |-> TRUE, val |-> gen[cls][f]]
        ELSE IF f \in DOMAIN gen
             THEN [has |-> TRUE, val |-> gen[f]]
             ELSE [has |-> FALSE, val |-> None]]

\* C1: after edit(w) returns for a registered class, the visible pairs are
\* exactly the required-group properties plus the standard, specific and
\* custom properties named in the class's list for that group; every other
\* registered pair is hidden.
C1_EditShowsExactlyExposed ==
    EditReturned =>
        /\ DOMAIN gridded = { r.key : r \in Registered }
        /\ \A r \in Registered :
              IF r \in Exposed(classname[lastOp.w]) THEN Visible(r.key) ELSE Hidden(r.key)

C1_Witness ==
    /\ EditReturned
    /\ lastOp.w = "w2"
    /\ events > 0
    /\ Visible("00id") /\ Visible("01text") /\ Visible("03data")
    /\ Hidden("02width")

\* C2: after hide_all (and at the end of construction) every pair registered
\* in the property bag is hidden.
C2_HideAllHidesEveryPair ==
    lastOp.op \in {"hide_all", "__init__"} =>
        /\ DOMAIN _propbag = { r.key : r \in Registered }
        /\ \A key \in DOMAIN _propbag : Hidden(key)

C2_Witness ==
    /\ lastOp.op = "hide_all"
    /\ lastEdited = "w1"
    /\ Hidden("00class") /\ Hidden("01text")

\* The value the documentation says is displayed for property r of widget w.
DocumentedValue(r, w) ==
    LET default == Effective(r, classname[w])["default"] IN
    IF properties[w][r.name] # ""
    THEN properties[w][r.name]
    ELSE IF default.has THEN default.val ELSE ""

\* C3: for every property shown by edit(w), the value given to the editor is
\* the widget's current value if it is non-empty, else the descriptor's
\* default (after the class-specific override) if there is one, else "".
C3_DisplayedValue ==
    EditReturned =>
        \A r \in Exposed(classname[lastOp.w]) :
            value[r.key] = DocumentedValue(r, lastOp.w)

C3_Witness ==
    /\ EditReturned
    /\ lastOp.w = "w1"
    /\ properties["w1"]["text"] = "a"  /\ value["01text"] = "a"
    /\ properties["w1"]["width"] = "" /\ value["02width"] = "5"
    /\ properties["w1"]["id"] = ""    /\ value["00id"] = ""

\* C4: once a widget has been passed to edit, a PropertyChanged event fired
\* by the editor of property p makes exactly one set-property call,
\* widget_property(p, v) with v the editor's value, on the descriptor most
\* recently passed to edit, and none on any other descriptor.
C4_EventCallsLastEdited ==
    (lastOp.op = "event" /\ lastEdited # None) =>
        \E r \in Registered :
            /\ r.key = lastOp.key
            /\ calls = << <<lastEdited, r.name, value[r.key]>> >>

C4_Witness ==
    /\ lastOp.op = "event"
    /\ events = 2
    /\ lastEdited = "w2"
    /\ calls = << <<"w2", "text", "a">> >>

\* The help text the documentation says is picked from a class-prefix
\* mapping: the value of the first key, in insertion order, that is a prefix
\* of the class name; "" when no key is.
DocumentedHelp(items, cls) ==
    LET matching == { i \in 1..Len(items) : startswith(cls, items[i][1]) } IN
    IF matching = {}
    THEN ""
    ELSE items[CHOOSE i \in matching : \A j \in matching : i <= j][2]

\* C5: when the help of a shown property (after the class-specific override)
\* is a class-prefix mapping, the tooltip text is the value of the first key
\* in insertion order that is a prefix of the class name, "" if none is.
C5_HelpFirstPrefix ==
    EditReturned =>
        \A r \in Exposed(classname[lastOp.w]) :
            LET help == Effective(r, classname[lastOp.w])["help"] IN
            (help.has /\ help.val.isdict) =>
                tooltip[r.key] = DocumentedHelp(help.val.items, classname[lastOp.w])

C5_Witness ==
    /\ EditReturned
    /\ lastOp.w = "w1"
    /\ tooltip["01text"] = "any text"
    /\ tooltip["02width"] = ""

\* C6: the key set of the property bag and the (label, editor) pair under
\* each key are those of construction, whatever edit, hide_all or
\* PropertyChanged did since.
C6_PropbagFixed ==
    /\ DOMAIN _propbag = { r.key : r \in Registered }
    /\ \A r \in Registered :
          /\ _propbag[r.key].label = "label:" \o r.key
          /\ _propbag[r.key].editor.name = r.name
          /\ _propbag[r.key].editor.class =
                (IF r.name = "id" THEN "NamedIDPropertyEditor" ELSE "PropertyEditor")

C6_Witness ==
    /\ lastOp.op = "hide_all"
    /\ lastEdited = "w2"
    /\ events = 2

\* C7: after hide_all the panel is idle and no longer holds the previously
\* edited descriptor, so a PropertyChanged event delivered while idle makes
\* no set-property call.
C7_IdleEventCallsNothing ==
    (idle /\ lastOp.op = "event") => (_current = None /\ calls = <<>>)

\* The parameters the documentation says the editor of r receives for class
\* cls: those in effect after the override, plus the generic mode when they
\* have none.
DocumentedParams(r, cls) ==
    LET gen    == PropertyTables[r.tbl][r.name]
        eff    == Effective(r, cls)["params"]
        params == IF eff.has THEN eff.val ELSE EmptyDict
    IN  IF "params" \in DOMAIN gen /\ "mode" \in DOMAIN gen["params"]
           /\ "mode" \notin DOMAIN params
        THEN ("mode" :> gen["params"]["mode"]) @@ params
        ELSE params

Without(d, k) == [x \in DOMAIN d \ {k} |-> d[x]]

\* C8: the parameters passed to the editor are those of the generic
\* descriptor overridden by the sub-dict of the widget's exact class; the
\* generic mode is added when the parameters in effect have none, and a
\* class-specific mode is kept.  (The placeholder entry that "id" receives
\* besides is left out of the comparison.)
C8_EditorParameters ==
    EditReturned =>
        \A r \in Exposed(classname[lastOp.w]) :
            IF r.name = "id"
            THEN Without(parameters[r.key], "placeholder")
                    = Without(DocumentedParams(r, classname[lastOp.w]), "placeholder")
            ELSE parameters[r.key] = DocumentedParams(r, classname[lastOp.w])

C8_Witness ==
    /\ EditReturned
    /\ lastOp.w = "w1"
    /\ lastEdited = "w1"
    /\ parameters["01text"] = ("mode" :> "entry") @@ ("width" :> "20")
    /\ events > 0

\* C9 as claimed: an edit that fails on the class lookup leaves the
\* visibility of every pair and the current descriptor as they were.
C9_FailedEditKeepsCurrent ==
    [][ (lastOp'.op = "edit" /\ lastOp'.raised = "KeyError" /\ _current # None)
            => (gridded' = gridded /\ _current' = _current) ]_vars

\* C9 as amended: an edit that fails on the class lookup leaves the
\* visibility and the content of every pair as they were, but the current
\* descriptor is already the one passed to the failed call.
C9_FailedEditReplacesCurrent ==
    [][ (lastOp'.op = "edit" /\ lastOp'.raised = "KeyError")
            => /\ gridded' = gridded
               /\ <<parameters', tooltip', value'>> = <<parameters, tooltip, value>>
               /\ _current' = lastOp'.w ]_vars

C9_Witness ==
    /\ EditFailed
    /\ lastOp.w = "w3"
    /\ _current = "w3"
    /\ Visible("02width")

\* C10: the supplied descriptor tables are read-only for the panel: after
\* any number of edits they equal the tables before the first edit.
C10_TablesReadOnly == descr = PropertyTables

====
